---- MODULE Spec2Model ----
(***************************************************************************)
(* State-machine model of 98tang-autosign:                                 *)
(*   - src/src/browser/driver.py     SafeChrome, BrowserDriverManager      *)
(*   - src/src/automation/humanlike.py  HumanlikeBehavior                  *)
(* Every public method is one atomic action (the program is single-        *)
(* threaded and synchronous); the browsing run is modelled step by step.   *)
(***************************************************************************)
EXTENDS Integers, Sequences, FiniteSets, TLC

\* ------------------------------------------------------------------ bounds
\* Number of raw browser handles one run of the model may create.
MaxDrivers == 2
\* Length, in tokens, of the error text of a failed instantiation.
MaxMsgLen == 3
\* Largest browse_page_count explored.
MaxPages == 3
\* Number of distinct thread URLs a listing page may link to.
MaxUrls == 5
\* Longest list of matched elements drawn exhaustively.
MaxLinks == 3
\* Largest reply_count explored.
MaxReply == 4

\* ------------------------------------------------------------- conventions
None == 0          \* Python None for driver / wait / SafeChrome._driver
NoNum == -1        \* "no integer here": a phrase marker not followed by digits,
                   \* and the None value of curr_major

Min(S) == CHOOSE x \in S : \A y \in S : x <= y

VARIABLES
  UNDETECTED_AVAILABLE, \* module constant set at import time (driver.py 38/51)
  err_text,             \* str(e) of a failed first instantiation in this environment
  driver,               \* BrowserDriverManager.driver: None or a SafeChrome id
  wait,                 \* BrowserDriverManager.wait: None or the id of the proxy it polls
  is_cleanup_done,      \* BrowserDriverManager._is_cleanup_done
  proxy,                \* SafeChrome objects: id -> [is_closed, drv]
  raw,                  \* raw handles: id -> [quit_calls, is_patched, proc]
  created,              \* number of raw handles created so far
  last,                 \* record of the most recent call (observer)
  run_ops,              \* the shutdown calls made in a row up to now, at most 2 (observer)
  run_from,             \* what the manager was when that row started (observer)
  \* --- HumanlikeBehavior: one orchestration run
  cfg,                  \* config: the activity flags, counts and canned messages
  env,                  \* the site/driver behaviour of this run
  pc,                   \* position inside the running perform_humanlike_activities variant
  page_num,             \* loop variable of random_browse_pages
  log,                  \* browser-visible events of the run, in order
  results,              \* the outcome record being built
  post_targets,         \* the list find_reply_targets returned
  idx,                  \* loop variable i of the reply loop
  success_count,        \* replies that returned True so far
  failed_posts,         \* titles of the targets whose reply returned False
  tried,                \* positions in post_targets handed to reply_to_post (observer)
  reply,                \* record of the most recent reply_to_post call (observer)
  run                   \* which of the two entry points is running, and what the
                        \* run before it did (observer)

session_vars == <<UNDETECTED_AVAILABLE, err_text, driver, wait, is_cleanup_done, proxy, raw,
                  created, last, run_ops, run_from>>
reply_vars == <<post_targets, idx, success_count, failed_posts, tried, reply>>
browse_vars == <<cfg, env, pc, page_num, log, results, reply_vars, run>>
vars == <<session_vars, browse_vars>>

Ids == 1..MaxDrivers

\* --------------------------------------------------- version-mismatch text
\* An error text is a sequence of tokens: the two phrase markers of the
\* regular expressions, each followed by an integer or not, and other text.
\* Chrome major versions are positive integers.
Versions == {120, 131}

Tokens ==
  {[k |-> "supports", v |-> 120], [k |-> "other", v |-> NoNum]}
    \cup [k : {"current"}, v : Versions \cup {NoNum}]

Messages == UNION {[1..n -> Tokens] : n \in 0..MaxMsgLen}

\* Positions where "supports Chrome version\s*(\d+)" matches.
SupIdx(msg) == {i \in DOMAIN msg : msg[i].k = "supports" /\ msg[i].v # NoNum}

\* Positions where "Current browser version is\s*(\d+)" matches.
CurIdx(msg) == {i \in DOMAIN msg : msg[i].k = "current" /\ msg[i].v # NoNum}

\* group(1) of the same match: the version the driver supports.
re_m_group1(msg) ==
  IF \E i \in SupIdx(msg), j \in CurIdx(msg) : i < j
  THEN msg[Min(SupIdx(msg))].v
  ELSE NoNum

\* re.search(r"supports Chrome version\s*(\d+).*?Current browser version is\s*(\d+)",
\*           msg, IGNORECASE | DOTALL).group(2): leftmost start, lazy gap.
re_m_group2(msg) ==
  IF \E i \in SupIdx(msg), j \in CurIdx(msg) : i < j
  THEN msg[Min({j \in CurIdx(msg) : j > Min(SupIdx(msg))})].v
  ELSE NoNum

\* re.search(r"Current browser version is\s*(\d+)", msg).group(1)
re_m_current(msg) ==
  IF CurIdx(msg) # {} THEN msg[Min(CurIdx(msg))].v ELSE NoNum

\* curr_major read from group(1) instead of group(2).
curr_major_group1(msg) ==
  IF re_m_group1(msg) # NoNum THEN re_m_group1(msg) ELSE re_m_current(msg)

\* curr_major as lines 222-226 compute it.
curr_major(msg) ==
  IF re_m_group2(msg) # NoNum THEN re_m_group2(msg) ELSE re_m_current(msg)

Attempt(kind, v, out) == [kind |-> kind, version_main |-> v, out |-> out]

\* The attempts of _init_driver_uc once the first uc.Chrome(options=options)
\* has raised and the version cm has been extracted: the pinned retry, and
\* after its TypeError the retry with default resolution.
retry_pinned(cm, out1, out2, out3) ==
  IF out2 = "TypeError"
  THEN <<Attempt("default", NoNum, out1), Attempt("pinned", cm, out2),
         Attempt("default", NoNum, out3)>>
  ELSE <<Attempt("default", NoNum, out1), Attempt("pinned", cm, out2)>>

\* The exception that leaves _init_driver_uc after these attempts.
error_of(attempts) ==
  IF attempts[Len(attempts)].out = "ok" THEN "none"
  ELSE IF Len(attempts) = 1 THEN "original"
  ELSE IF Len(attempts) = 2 THEN "pinned"
  ELSE "fallback"

Outcome(attempts) ==
  [attempts |-> attempts, ok |-> attempts[Len(attempts)].out = "ok",
   error |-> error_of(attempts)]

\* _init_driver_uc with "except Exception" in place of "except TypeError".
init_driver_uc_any_fallback(out1, msg, out2, out3) ==
  IF out1 = "ok" \/ curr_major(msg) = NoNum \/ curr_major(msg) = 0
  THEN Outcome(<<Attempt("default", NoNum, out1)>>)
  ELSE IF out2 = "ok"
       THEN Outcome(retry_pinned(curr_major(msg), out1, out2, out3))
       ELSE Outcome(<<Attempt("default", NoNum, out1),
                      Attempt("pinned", curr_major(msg), out2),
                      Attempt("default", NoNum, out3)>>)

\* _init_driver_uc retrying with default resolution when no version was extracted.
init_driver_uc_always_retry(out1, msg, out2, out3) ==
  IF out1 = "ok"
  THEN Outcome(<<Attempt("default", NoNum, out1)>>)
  ELSE IF curr_major(msg) = NoNum \/ curr_major(msg) = 0
       THEN Outcome(<<Attempt("default", NoNum, out1), Attempt("default", NoNum, out3)>>)
       ELSE Outcome(retry_pinned(curr_major(msg), out1, out2, out3))

\* _init_driver_uc(options): out1, out2, out3 are the outcomes of the first,
\* the pinned and the fallback uc.Chrome(...) call, msg the text of the first
\* error.  "if curr_major:" is false for None and for 0.
init_driver_uc(out1, msg, out2, out3) ==
  IF out1 = "ok" \/ curr_major(msg) = NoNum \/ curr_major(msg) = 0
  THEN Outcome(<<Attempt("default", NoNum, out1)>>)
  ELSE Outcome(retry_pinned(curr_major(msg), out1, out2, out3))

\* The instantiation create_driver performs (lines 250-254): through
\* _init_driver_uc, or one plain webdriver.Chrome(options=options).
instantiate(out1, msg, out2, out3) ==
  IF UNDETECTED_AVAILABLE
  THEN init_driver_uc(out1, msg, out2, out3)
  ELSE Outcome(<<Attempt("default", NoNum, out1)>>)

\* ------------------------------------------------------------- SafeChrome
\* The raw operations each call can reach; a fault set names those that raise.
\* (The assignment of _is_patched to a plain Python object does not raise.)
QuitFaults == SUBSET {"close", "quit"}
ForceFaults == SUBSET {"quit", "poll", "terminate", "wait"}

\* One call that reached a raw handle (or its OS process), and how it ended.
RawCall(name, f) == [op |-> name, out |-> IF name \in f THEN "raise" ELSE "ok"]

Raised(calls) == {i \in DOMAIN calls : calls[i].out = "raise"}

NoProxy == [is_closed |-> FALSE, drv |-> None]
NoRaw == [quit_calls |-> 0, is_patched |-> FALSE, proc |-> "none"]

\* The raw handle's quit(): it is counted, and when it succeeds it ends the
\* driver process.
raw_quit(rw, d, f) ==
  [rw EXCEPT ![d].quit_calls = @ + 1,
             ![d].proc = IF "quit" \notin f /\ @ = "running" THEN "exited" ELSE @]

\* SafeChrome.__getattr__(name): an operation forwarded through the proxy.
SafeChrome_getattr(px, k, f) ==
  IF px[k].is_closed
  THEN [ret |-> "RuntimeError", calls |-> <<>>]
  ELSE [ret |-> IF "getattr" \in f THEN "raise" ELSE "value",
        calls |-> <<RawCall("getattr", f)>>]

\* SafeChrome.close(): exc tells whether an exception leaves the method.
SafeChrome_close(px, rw, k, f) ==
  IF ~px[k].is_closed /\ px[k].drv # None
  THEN [px |-> px, rw |-> rw, calls |-> <<RawCall("close", f)>>, exc |-> FALSE]
  ELSE [px |-> px, rw |-> rw, calls |-> <<>>, exc |-> FALSE]

\* SafeChrome.quit() that leaves the proxy open (no finally block).
SafeChrome_quit_stays_open(px, rw, k, f) ==
  IF ~px[k].is_closed /\ px[k].drv # None
  THEN [px |-> px,
        rw |-> raw_quit([rw EXCEPT ![px[k].drv].is_patched = TRUE], px[k].drv, f),
        calls |-> <<RawCall("patch", f), RawCall("quit", f)>>,
        exc |-> FALSE]
  ELSE [px |-> px, rw |-> rw, calls |-> <<>>, exc |-> FALSE]

\* SafeChrome.quit(): mark the raw handle, quit it, swallow, and in the
\* finally block close the proxy and drop the handle.
SafeChrome_quit(px, rw, k, f) ==
  IF ~px[k].is_closed /\ px[k].drv # None
  THEN [px |-> [px EXCEPT ![k] = [is_closed |-> TRUE, drv |-> None]],
        rw |-> raw_quit([rw EXCEPT ![px[k].drv].is_patched = TRUE], px[k].drv, f),
        calls |-> <<RawCall("patch", f), RawCall("quit", f)>>,
        exc |-> FALSE]
  ELSE [px |-> px, rw |-> rw, calls |-> <<>>, exc |-> FALSE]

\* ---------------------------------------------------- BrowserDriverManager
get_driver == driver
get_wait == wait

\* The record of a call: target is the proxy it addressed (None: none),
\* pre_quit whether quit() had already run on that proxy's handle, and after
\* the call that preceded it, where that is recorded.
Call(op, ret, escaped, calls, changed, attempts, error) ==
  [op |-> op, ret |-> ret, escaped |-> escaped, calls |-> calls, changed |-> changed,
   attempts |-> attempts, error |-> error, target |-> None, pre_quit |-> FALSE,
   after |-> "none"]

\* quit() has run on proxy k: its raw handle's quit() was invoked.
WasQuit(k) == k # None /\ k <= created /\ raw[k].quit_calls > 0

On(k, call) == [call EXCEPT !.target = k, !.pre_quit = WasQuit(k)]

ShutdownOps == {"quit_driver", "force_quit_driver"}

\* Observers of a row of shutdown calls: its first two calls, and what the
\* manager was when the row started.
NoteShutdown(op) ==
  /\ run_ops' = IF Len(run_ops) < 2 THEN Append(run_ops, op) ELSE run_ops
  /\ run_from' = IF run_ops # <<>> THEN run_from
                 ELSE IF last.op = "create_driver" /\ last.ret = "True" THEN "created"
                 ELSE IF driver # None /\ proxy[driver].drv # None
                         /\ raw[proxy[driver].drv].quit_calls = 0 THEN "held"
                 ELSE "none"

NoteOther ==
  /\ run_ops' = <<>>
  /\ run_from' = "none"

\* create_driver(config).  waitOk: int(config.get("wait_timeout", 10)) is a
\* number; procKind: whether the new handle exposes a running service process.
create_driver(out1, out2, out3, waitOk, procKind) ==
  LET r == instantiate(out1, err_text, out2, out3)
      k == created + 1
  IN /\ r.ok => created < MaxDrivers
     /\ IF r.ok
        THEN /\ driver' = k
             /\ proxy' = [proxy EXCEPT ![k] = [is_closed |-> FALSE, drv |-> k]]
             /\ raw' = [raw EXCEPT ![k] = [quit_calls |-> 0, is_patched |-> FALSE,
                                           proc |-> procKind]]
             /\ created' = k
             /\ wait' = IF waitOk THEN k ELSE wait
             /\ last' = Call("create_driver", IF waitOk THEN "True" ELSE "False", FALSE,
                             IF waitOk THEN <<RawCall("getattr", {})>> ELSE <<>>,
                             TRUE, r.attempts,
                             IF waitOk THEN "none" ELSE "wait_timeout")
        ELSE /\ UNCHANGED <<driver, proxy, raw, created, wait>>
             /\ last' = Call("create_driver", "False", FALSE, <<>>, FALSE, r.attempts,
                             r.error)
     /\ NoteOther
     /\ UNCHANGED <<UNDETECTED_AVAILABLE, err_text, is_cleanup_done>>

\* The state a shutdown call leaves: the finally block of both methods.
Finally(op, q, calls) ==
  /\ is_cleanup_done' = TRUE
  /\ driver' = None
  /\ wait' = None
  /\ proxy' = q.px
  /\ raw' = q.rw
  /\ last' = On(driver, Call(op, "None", FALSE, calls, TRUE, <<>>, "none"))

Skipped(op) ==
  /\ UNCHANGED <<is_cleanup_done, driver, wait, proxy, raw>>
  /\ last' = On(driver, Call(op, "None", FALSE, <<>>, FALSE, <<>>, "none"))

\* quit_driver(): f is the set of raw operations that raise during the call.
quit_driver(f) ==
  /\ IF driver # None /\ ~is_cleanup_done
     THEN LET c == SafeChrome_close(proxy, raw, driver, f)
              q == SafeChrome_quit(c.px, c.rw, driver, f)
          IN Finally("quit_driver", q, c.calls \o q.calls)
     ELSE Skipped("quit_driver")
  /\ NoteShutdown("quit_driver")
  /\ UNCHANGED <<UNDETECTED_AVAILABLE, err_text, created>>

terminate_process_any_state(rw, d, f) ==
  IF d = None \/ rw[d].proc = "none"
  THEN [rw |-> rw, calls |-> <<>>]
  ELSE IF "poll" \in f
       THEN [rw |-> rw, calls |-> <<RawCall("poll", f)>>]
       ELSE IF "terminate" \in f
            THEN [rw |-> rw, calls |-> <<RawCall("poll", f), RawCall("terminate", f)>>]
            ELSE [rw |-> [rw EXCEPT ![d].proc = "exited"],
                  calls |-> <<RawCall("poll", f), RawCall("terminate", f),
                              RawCall("wait", f)>>]

\* Lines 305-317: terminate the chromedriver process when it is reachable
\* and still running; every exception in the block is swallowed.
terminate_process(rw, d, f) ==
  IF d = None \/ rw[d].proc = "none"
  THEN [rw |-> rw, calls |-> <<>>]
  ELSE IF "poll" \in f \/ rw[d].proc # "running"
       THEN [rw |-> rw, calls |-> <<RawCall("poll", f)>>]
       ELSE IF "terminate" \in f
            THEN [rw |-> rw, calls |-> <<RawCall("poll", f), RawCall("terminate", f)>>]
            ELSE [rw |-> [rw EXCEPT ![d].proc = "exited"],
                  calls |-> <<RawCall("poll", f), RawCall("terminate", f),
                              RawCall("wait", f)>>]

\* force_quit_driver() with the process block outside its try blocks: an
\* exception of poll() or terminate() leaves the method before the cleanup.
force_quit_driver_unguarded(f) ==
  /\ IF driver # None /\ ~is_cleanup_done
     THEN LET t == terminate_process(raw, proxy[driver].drv, f)
              q == SafeChrome_quit(proxy, t.rw, driver, f)
          IN IF Raised(t.calls) \ {3} # {}
             THEN /\ UNCHANGED <<is_cleanup_done, driver, wait, proxy, raw>>
                  /\ last' = On(driver, Call("force_quit_driver", "None", TRUE, t.calls,
                                              FALSE, <<>>, "none"))
             ELSE Finally("force_quit_driver", q, t.calls \o q.calls)
     ELSE Skipped("force_quit_driver")
  /\ NoteShutdown("force_quit_driver")
  /\ UNCHANGED <<UNDETECTED_AVAILABLE, err_text, created>>

\* force_quit_driver()
force_quit_driver(f) ==
  /\ IF driver # None /\ ~is_cleanup_done
     THEN LET t == terminate_process(raw, proxy[driver].drv, f)
              q == SafeChrome_quit(proxy, t.rw, driver, f)
          IN Finally("force_quit_driver", q, t.calls \o q.calls)
     ELSE Skipped("force_quit_driver")
  /\ NoteShutdown("force_quit_driver")
  /\ UNCHANGED <<UNDETECTED_AVAILABLE, err_text, created>>

\* A borrower of the handle (HumanlikeBehavior.driver, WebDriverWait) uses the
\* proxy: any forwarded operation, close() or quit().
proxy_getattr(k, f) ==
  /\ k <= created
  /\ last' = On(k, Call("SafeChrome.getattr", SafeChrome_getattr(proxy, k, f).ret, FALSE,
                        SafeChrome_getattr(proxy, k, f).calls, FALSE, <<>>, "none"))
  /\ NoteOther
  /\ UNCHANGED <<UNDETECTED_AVAILABLE, err_text, driver, wait, is_cleanup_done, proxy, raw, created>>

proxy_close(k, f) ==
  /\ k <= created
  /\ last' = On(k, Call("SafeChrome.close", "None", SafeChrome_close(proxy, raw, k, f).exc,
                        SafeChrome_close(proxy, raw, k, f).calls, FALSE, <<>>, "none"))
  /\ NoteOther
  /\ UNCHANGED <<UNDETECTED_AVAILABLE, err_text, driver, wait, is_cleanup_done, proxy, raw, created>>

proxy_quit(k, f) ==
  /\ k <= created
  /\ LET q == SafeChrome_quit(proxy, raw, k, f)
     IN /\ proxy' = q.px
        /\ raw' = q.rw
        /\ last' = On(k, Call("SafeChrome.quit", "None", q.exc, q.calls,
                              q.px # proxy \/ q.rw # raw, <<>>, "none"))
  /\ NoteOther
  /\ UNCHANGED <<UNDETECTED_AVAILABLE, err_text, driver, wait, is_cleanup_done, created>>

\* is_driver_alive(), lines 328-335: without a driver False; else the probe
\* reads current_url through the proxy, and any exception is answered with
\* False.  error is what the probe did.
is_driver_alive(f) ==
  /\ LET g == IF driver = None THEN [ret |-> "none", calls |-> <<>>]
              ELSE SafeChrome_getattr(proxy, driver, f)
     IN last' = [On(driver, Call("is_driver_alive",
                                 IF driver # None /\ g.ret = "value" THEN "True" ELSE "False",
                                 FALSE, g.calls, FALSE, <<>>, g.ret))
                 EXCEPT !.after = last.op]
  /\ NoteOther
  /\ UNCHANGED <<UNDETECTED_AVAILABLE, err_text, driver, wait, is_cleanup_done, proxy, raw, created>>

\* The chromedriver process ends on its own.
process_exits(k) ==
  /\ k <= created
  /\ raw[k].proc = "running"
  /\ raw' = [raw EXCEPT ![k].proc = "exited"]
  /\ last' = Call("process_exits", "None", FALSE, <<>>, TRUE, <<>>, "none")
  /\ NoteOther
  /\ UNCHANGED <<UNDETECTED_AVAILABLE, err_text, driver, wait, is_cleanup_done, proxy, created>>

\* BrowserDriverManager.__init__, and the import-time choice of backend.
InitSession ==
  /\ driver = None
  /\ wait = None
  /\ is_cleanup_done = FALSE
  /\ proxy = [k \in Ids |-> NoProxy]
  /\ raw = [k \in Ids |-> NoRaw]
  /\ created = 0
  /\ last = Call("init", "None", FALSE, <<>>, FALSE, <<>>, "none")
  /\ run_ops = <<>>
  /\ run_from = "none"

\* ------------------------------------------------------ HumanlikeBehavior
\* What the pagination control of a listing page does when browsing tries to
\* advance from it: found and the click lands on a "page=" URL; found but the
\* click raises or lands elsewhere; not found.
Controls == {"works", "fails", "absent"}

\* The pagination control of listing page p; the pages past the last one the
\* environment describes have none.
Control(p) == IF p \in DOMAIN env.ctrl THEN env.ctrl[p] ELSE "absent"

\* The waits of TimingManager and the logger calls do not raise: a wait only
\* blocks, so the steps of a run that can fail are the browser's.

\* ---- texts
\* A text is what the code does with it: its identity (a kind and a number),
\* its length without the surrounding whitespace, the whitespace around it
\* (pad characters on each side) and whether it contains one of
\* INVALID_KEYWORDS.  A content string of the service is none of the canned
\* messages.
Text(id, len, pad, denied) == [id |-> id, len |-> len, pad |-> pad, denied |-> denied]

\* str.strip()
strip(t) == [t EXCEPT !.pad = 0]

\* len(str)
len(t) == t.len + 2 * t.pad

\* str[:n] of a stripped text
prefix(t, n) == [t EXCEPT !.len = IF t.len > n THEN n ELSE t.len]

\* ---- reply discovery (find_reply_targets)
TitleMin == 4
TitleCap == 50
ElementCap == 20

\* The href attribute of an element: None or empty (path 0), or the path of a
\* thread written relative to the site or as an absolute URL.
NoHref == [abs |-> FALSE, path |-> 0]
Hrefs == {NoHref} \cup [abs : BOOLEAN, path : 1..MaxUrls]

\* urljoin(self.base_url, href): both spellings of a path are one URL.
urljoin(href) == href.path

\* Python's seq[:n] for n >= 0.
First(seq, n) == SubSeq(seq, 1, IF n < Len(seq) THEN n ELSE Len(seq))

\* Lines 175-181: the link an element contributes, if it qualifies.
qualifies(el) == el.href # NoHref /\ len(strip(el.text)) > 0 /\ len(strip(el.text)) > TitleMin

post_link(el) == [url |-> urljoin(el.href), title |-> prefix(strip(el.text), TitleCap)]

\* Lines 171-181 over the elements els, appending to post_links; an element
\* gone stale raises at its get_attribute.
RECURSIVE scan_elements(_, _)
scan_elements(els, post_links) ==
  IF els = <<>> THEN [post_links |-> post_links, raised |-> FALSE]
  ELSE IF Head(els).stale THEN [post_links |-> post_links, raised |-> TRUE]
  ELSE scan_elements(Tail(els), IF qualifies(Head(els))
                                THEN Append(post_links, post_link(Head(els)))
                                ELSE post_links)

\* Lines 165-186: the selectors from s on, in order; matches[s] is what
\* find_elements returns for selector s.  evaluated is the last selector
\* whose find_elements ran.
RECURSIVE try_selectors(_, _, _)
try_selectors(matches, s, post_links) ==
  IF s > Len(matches) THEN [post_links |-> post_links, evaluated |-> Len(matches)]
  ELSE LET r == scan_elements(First(matches[s], ElementCap), post_links)
       IN IF ~r.raised /\ r.post_links # <<>>
          THEN [post_links |-> r.post_links, evaluated |-> s]
          ELSE try_selectors(matches, s + 1, r.post_links)

\* The post_links list the loop of lines 165-186 leaves.
scan_selectors(matches, s, post_links) == try_selectors(matches, s, post_links).post_links

\* Lines 189-194: the first link of every URL, in order.
RECURSIVE unique_posts(_, _)
unique_posts(post_links, seen_urls) ==
  IF post_links = <<>> THEN <<>>
  ELSE IF Head(post_links).url \in seen_urls
       THEN unique_posts(Tail(post_links), seen_urls)
       ELSE <<Head(post_links)>> \o
            unique_posts(Tail(post_links), seen_urls \cup {Head(post_links).url})

\* random.shuffle: p is the permutation drawn.
shuffle(seq, p) == [i \in 1..Len(seq) |-> seq[p[i]]]

\* Lines 188-196 without the cut of line 197.
select_posts_uncut(post_links, p, reply_count) ==
  shuffle(unique_posts(post_links, {}), p)

\* Lines 188-197: deduplicate, shuffle, cut to reply_count.
select_posts(post_links, p, reply_count) ==
  First(shuffle(unique_posts(post_links, {}), p), reply_count)

\* The navigation of find_reply_targets that raises: none, the first page's
\* driver.get, the direct driver.get of page 2.
DiscoveryFaults == {"none", "get", "page2"}

\* Lines 129-155 fetching the page-2 URL even after a click that worked.
open_page2_always_fetches ==
  IF env.discovery = "get" THEN [events |-> <<"list_get">>, raised |-> TRUE]
  ELSE [events |-> <<"list_get">>
                   \o (IF Control(1) = "absent" THEN <<>> ELSE <<"next_click">>)
                   \o <<"page2_get">>,
        raised |-> env.discovery = "page2"]

\* The listing page 2 as find_reply_targets reaches it (lines 129-155): the
\* events up to the fault, and whether an exception ended the method there.
open_page2 ==
  IF env.discovery = "get" THEN [events |-> <<"list_get">>, raised |-> TRUE]
  ELSE IF Control(1) = "works"
       THEN [events |-> <<"list_get", "next_click">>, raised |-> FALSE]
       ELSE [events |-> <<"list_get">>
                        \o (IF Control(1) = "fails" THEN <<"next_click">> ELSE <<>>)
                        \o <<"page2_get">>,
             raised |-> env.discovery = "page2"]

\* find_reply_targets(reply_count), lines 126-207: every exception is answered
\* with the empty list.
find_reply_targets(p, reply_count) ==
  IF open_page2.raised
  THEN [events |-> open_page2.events, posts |-> <<>>, raised |-> TRUE]
  ELSE [events |-> Append(open_page2.events, "find_elements"),
        posts |-> select_posts(scan_selectors(env.matches, 1, <<>>), p, reply_count),
        raised |-> FALSE]

\* ---- reply content
ReplyMin == 10

\* "支持一下"
DefaultReply == Text(<<"default", 0>>, 4, 0, FALSE)

NoText == Text(<<"none", 0>>, 0, 0, FALSE)

\* What the request of lines 512-529 yields: an exception (network error,
\* timeout, a body that is not the expected JSON), or the content string.
ApiError == Text(<<"error", 0>>, 0, 0, FALSE)

\* Lines 543 and 549: a canned message, or the default when there is none;
\* pick is the position random.choice draws.
fallback_reply(pick) ==
  IF cfg.reply_messages # <<>>
  THEN [text |-> cfg.reply_messages[pick], source |-> "pool", raised |-> FALSE, api_calls |-> 1]
  ELSE [text |-> DefaultReply, source |-> "default", raised |-> FALSE, api_calls |-> 1]

\* Lines 539-545 accepting every content string.
generate_reply_with_deepseek_unchecked(resp, pick) ==
  IF resp = ApiError THEN fallback_reply(pick)
  ELSE [text |-> strip(resp), source |-> "ai", raised |-> FALSE, api_calls |-> 1]

\* _generate_reply_with_deepseek(title), lines 502-549: one request, the
\* validation of its stripped content, the fallback.
generate_reply_with_deepseek(resp, pick) ==
  IF resp = ApiError THEN fallback_reply(pick)
  ELSE IF len(strip(resp)) = 0 \/ len(strip(resp)) < ReplyMin \/ resp.denied
       THEN fallback_reply(pick)
       ELSE [text |-> strip(resp), source |-> "ai", raised |-> FALSE, api_calls |-> 1]

\* Lines 235-240 calling the service whatever use_deepseek says.
reply_text_always_ai(resp, pick) ==
  generate_reply_with_deepseek(resp, pick)

\* Lines 235-240: the content of a reply; random.choice of an empty list
\* raises IndexError.
reply_text(resp, pick) ==
  IF cfg.use_deepseek THEN generate_reply_with_deepseek(resp, pick)
  ELSE IF cfg.reply_messages = <<>>
       THEN [text |-> NoText, source |-> "none", raised |-> TRUE, api_calls |-> 0]
       ELSE [text |-> cfg.reply_messages[pick], source |-> "pool", raised |-> FALSE,
             api_calls |-> 0]

\* ---- reply submission
\* What the browser does in one reply_to_post: nothing unusual ("none"),
\* driver.get raises, human_like_scroll raises, the reply textbox shows only
\* after the scroll to the page bottom ("below"), is_displayed raises
\* ("locate"), no reply textbox, clear/send_keys raises, no submit control,
\* safe_click raises.
ReplyFaults ==
  {"none", "get", "scroll", "below", "locate", "no_textbox", "fill", "no_submit", "click"}

NoReply ==
  [url |-> 0, steps |-> <<>>, ret |-> FALSE, resp |-> NoText, text |-> NoText,
   source |-> "none", gen_raised |-> FALSE, api_calls |-> 0, textbox |-> "none"]

smart_scroll_always_scrolls(o) ==
  IF o = "locate" THEN [steps |-> <<"textbox">>, textbox |-> "raised"]
  ELSE IF o = "no_textbox"
       THEN [steps |-> <<"textbox", "scroll_bottom", "textbox_again">>, textbox |-> "absent"]
  ELSE [steps |-> <<"textbox", "scroll_bottom", "textbox_again", "scroll_to_textbox">>,
        textbox |-> IF o = "below" THEN "bottom" ELSE "viewport"]

\* _smart_scroll_to_reply_area, lines 411-448: the textbox is looked up in the
\* current view; only when it is not found displayed there the page is
\* scrolled to its bottom and the textbox looked up again; an exception is
\* answered with None.
smart_scroll_to_reply_area(o) ==
  IF o = "locate" THEN [steps |-> <<"textbox">>, textbox |-> "raised"]
  ELSE IF o = "no_textbox"
       THEN [steps |-> <<"textbox", "scroll_bottom", "textbox_again">>, textbox |-> "absent"]
  ELSE IF o = "below"
       THEN [steps |-> <<"textbox", "scroll_bottom", "textbox_again", "scroll_to_textbox">>,
             textbox |-> "bottom"]
  ELSE [steps |-> <<"textbox">>, textbox |-> "viewport"]

\* reply_to_post(post_info), lines 219-271: the steps taken, in order, and the
\* result; resp is what the generation service would answer and pick the
\* position random.choice would draw.  Every exception is answered with False.
reply_to_post(post_info, o, resp, pick) ==
  LET g == reply_text(resp, pick)
      area == smart_scroll_to_reply_area(o)
      located == <<"get", "scroll">> \o area.steps
      at == [NoReply EXCEPT !.url = post_info.url]
      found == [at EXCEPT !.textbox = area.textbox]
      made == [found EXCEPT !.text = g.text, !.source = g.source, !.api_calls = g.api_calls,
                            !.resp = IF g.api_calls > 0 THEN resp ELSE NoText]
  IN IF o = "get" THEN [at EXCEPT !.steps = <<"get">>]
     ELSE IF o = "scroll" THEN [at EXCEPT !.steps = <<"get", "scroll">>]
     ELSE IF area.textbox \in {"absent", "raised"} THEN [found EXCEPT !.steps = located]
     ELSE IF g.raised
          THEN [found EXCEPT !.steps = located \o <<"generate">>,
                             !.gen_raised = TRUE, !.api_calls = g.api_calls]
     ELSE IF o = "fill"
          THEN [made EXCEPT !.steps = located \o <<"generate", "fill">>]
     ELSE IF o = "no_submit"
          THEN [made EXCEPT !.steps = located \o <<"generate", "fill", "wait", "submit">>]
     ELSE [made EXCEPT !.steps = located \o <<"generate", "fill", "wait", "submit", "click">>,
                       !.ret = (o \in {"none", "below"})]

\* ---- the outcome record
DetailCap == 3

Message(kind, k, n) == [kind |-> kind, k |-> k, n |-> n]
Details(kind, titles) == [kind |-> kind, titles |-> titles]

\* The results dictionary of lines 316-322.
InitialResults ==
  [browse_success |-> TRUE, browse_message |-> "default",
   reply_success |-> FALSE, reply_message |-> Message("not executed", 0, 0),
   reply_details |-> Details("None", <<>>)]

\* Lines 324-331: the opening wait and the browsing flag.
activities_start ==
  /\ pc = "idle"
  /\ pc' = IF cfg.enable_random_browsing THEN "get" ELSE "reply"
  /\ UNCHANGED <<run, cfg, env, page_num, log, results, reply_vars>>

\* random_browse_pages, lines 59-68: open the listing, enter the loop.
browse_get ==
  /\ pc = "get"
  /\ log' = Append(log, "get")
  /\ page_num' = 0
  /\ pc' = IF env.get_raises \/ cfg.browse_page_count <= 0 THEN "return" ELSE "scroll"
  /\ UNCHANGED <<run, cfg, env, results, reply_vars>>

\* Lines 76-79 that attempt to advance on the last page too.
browse_scroll_advance_always ==
  /\ pc = "scroll"
  /\ log' = Append(log, "scroll")
  /\ pc' = IF env.scroll_raises_at = page_num + 1 THEN "return" ELSE "advance"
  /\ UNCHANGED <<run, cfg, env, page_num, results, reply_vars>>

\* Lines 76-79: one scroll cycle, then the choice between advancing and dwelling.
browse_scroll ==
  /\ pc = "scroll"
  /\ log' = Append(log, "scroll")
  /\ pc' = IF env.scroll_raises_at = page_num + 1 THEN "return"
           ELSE IF page_num < cfg.browse_page_count - 1 THEN "advance"
           ELSE "dwell"
  /\ UNCHANGED <<run, cfg, env, page_num, results, reply_vars>>

\* Lines 83-88 without the break.
browse_advance_no_break ==
  /\ pc = "advance"
  /\ log' = Append(log, Control(page_num + 1))
  /\ page_num' = page_num + 1
  /\ pc' = IF page_num + 1 < cfg.browse_page_count THEN "scroll" ELSE "return"
  /\ UNCHANGED <<run, cfg, env, results, reply_vars>>

\* Lines 80-88 with _browse_next_page_with_click (486-500): one page-advance
\* attempt; anything but a working control ends the loop.
browse_advance ==
  /\ pc = "advance"
  /\ log' = Append(log, Control(page_num + 1))
  /\ IF Control(page_num + 1) = "works"
     THEN /\ page_num' = page_num + 1
          /\ pc' = "scroll"
     ELSE /\ page_num' = page_num
          /\ pc' = "return"
  /\ UNCHANGED <<run, cfg, env, results, reply_vars>>

\* Lines 89-100: the dwell on the last page, which ends the loop.
browse_dwell ==
  /\ pc = "dwell"
  /\ page_num' = page_num + 1
  /\ pc' = "return"
  /\ UNCHANGED <<run, cfg, env, log, results, reply_vars>>

\* Lines 111 and 335-339: random_browse_pages returns without raising.
browse_return ==
  /\ pc = "return"
  /\ run.method = "with_results"
  /\ results' = [results EXCEPT !.browse_success = TRUE, !.browse_message = "browsed"]
  /\ pc' = "reply"
  /\ UNCHANGED <<run, cfg, env, page_num, log, reply_vars>>

\* Line 346 with the reply activity run whatever enable_reply says.
reply_start_unconditional ==
  /\ pc = "reply"
  /\ pc' = "discover"
  /\ UNCHANGED <<run, cfg, env, page_num, log, results, reply_vars>>

\* Line 346: the reply flag; without it the outcome is returned as it is.
reply_start ==
  /\ pc = "reply"
  /\ pc' = IF cfg.enable_reply THEN "discover" ELSE "done"
  /\ UNCHANGED <<run, cfg, env, page_num, log, results, reply_vars>>

\* Lines 351-359 replying to the links of the page although discovery raised.
reply_discover_despite_raise(p) ==
  /\ pc = "discover"
  /\ LET r == find_reply_targets(p, cfg.reply_count)
         posts == IF r.raised
                  THEN select_posts(scan_selectors(env.matches, 1, <<>>), p, cfg.reply_count)
                  ELSE r.posts
     IN /\ log' = log \o r.events
        /\ post_targets' = posts
        /\ IF posts = <<>>
           THEN /\ results' = [results EXCEPT
                                 !.reply_success = FALSE,
                                 !.reply_message = Message("no targets found", 0, 0),
                                 !.reply_details = Details("no suitable post", <<>>)]
                /\ pc' = "done"
           ELSE /\ results' = results
                /\ pc' = "attempt"
  /\ idx' = 0
  /\ success_count' = 0
  /\ failed_posts' = <<>>
  /\ UNCHANGED <<run, cfg, env, page_num, tried, reply>>

\* Lines 347-359: find the targets; without any, report that and return.
reply_discover(p) ==
  /\ pc = "discover"
  /\ LET r == find_reply_targets(p, cfg.reply_count)
     IN /\ log' = log \o r.events
        /\ post_targets' = r.posts
        /\ IF r.posts = <<>>
           THEN /\ results' = [results EXCEPT
                                 !.reply_success = FALSE,
                                 !.reply_message = Message("no targets found", 0, 0),
                                 !.reply_details = Details("no suitable post", <<>>)]
                /\ pc' = "done"
           ELSE /\ results' = results
                /\ pc' = "attempt"
  /\ idx' = 0
  /\ success_count' = 0
  /\ failed_posts' = <<>>
  /\ UNCHANGED <<run, cfg, env, page_num, tried, reply>>

\* Lines 361-368 with a wait after the last reply too.
reply_attempt_always_waits(o, resp, pick) ==
  /\ pc = "attempt"
  /\ LET r == reply_to_post(post_targets[idx + 1], o, resp, pick)
     IN /\ reply' = r
        /\ success_count' = IF r.ret THEN success_count + 1 ELSE success_count
        /\ failed_posts' = IF r.ret THEN failed_posts
                           ELSE Append(failed_posts, post_targets[idx + 1].title)
  /\ log' = Append(log, "reply")
  /\ tried' = Append(tried, idx + 1)
  /\ pc' = "interval"
  /\ UNCHANGED <<run, cfg, env, page_num, results, post_targets, idx>>

\* Lines 361-368 with a failed reply ending the loop.
reply_attempt_stops_on_failure(o, resp, pick) ==
  /\ pc = "attempt"
  /\ LET r == reply_to_post(post_targets[idx + 1], o, resp, pick)
     IN /\ reply' = r
        /\ success_count' = IF r.ret THEN success_count + 1 ELSE success_count
        /\ failed_posts' = IF r.ret THEN failed_posts
                           ELSE Append(failed_posts, post_targets[idx + 1].title)
        /\ pc' = IF r.ret /\ idx < Len(post_targets) - 1 THEN "interval" ELSE "summary"
  /\ log' = Append(log, "reply")
  /\ tried' = Append(tried, idx + 1)
  /\ UNCHANGED <<run, cfg, env, page_num, results, post_targets, idx>>

\* Lines 361-368: one pass of the loop up to the test for the interval wait.
reply_attempt(o, resp, pick) ==
  /\ pc = "attempt"
  /\ LET r == reply_to_post(post_targets[idx + 1], o, resp, pick)
     IN /\ reply' = r
        /\ success_count' = IF r.ret THEN success_count + 1 ELSE success_count
        /\ failed_posts' = IF r.ret THEN failed_posts
                           ELSE Append(failed_posts, post_targets[idx + 1].title)
  /\ log' = Append(log, "reply")
  /\ tried' = Append(tried, idx + 1)
  /\ pc' = IF idx < Len(post_targets) - 1 THEN "interval" ELSE "summary"
  /\ UNCHANGED <<run, cfg, env, page_num, results, post_targets, idx>>

\* Lines 369-374: the reply-interval wait, then the next pass.
reply_interval ==
  /\ pc = "interval"
  /\ log' = Append(log, "interval")
  /\ idx' = idx + 1
  /\ pc' = IF idx + 1 < Len(post_targets) THEN "attempt" ELSE "summary"
  /\ UNCHANGED <<run, cfg, env, page_num, results, post_targets, success_count, failed_posts,
                 tried, reply>>

\* Lines 376-392 naming no failed title.
reply_summary_without_titles ==
  /\ pc = "summary"
  /\ results' = [results EXCEPT
                   !.reply_success = success_count > 0,
                   !.reply_message = Message("count", success_count, Len(post_targets)),
                   !.reply_details = IF success_count > 0 THEN @
                                     ELSE Details("all failed", <<>>)]
  /\ pc' = "done"
  /\ UNCHANGED <<run, cfg, env, page_num, log, reply_vars>>

\* Lines 376-392 reporting success whenever a reply was attempted.
reply_summary_counts_attempts ==
  /\ pc = "summary"
  /\ results' = [results EXCEPT
                   !.reply_success = Len(post_targets) > 0,
                   !.reply_message = Message("count", success_count, Len(post_targets)),
                   !.reply_details =
                      IF failed_posts # <<>>
                      THEN Details("failed", First(failed_posts, DetailCap))
                      ELSE @]
  /\ pc' = "done"
  /\ UNCHANGED <<run, cfg, env, page_num, log, reply_vars>>

\* Lines 376-396: the outcome of the batch.
reply_summary ==
  /\ pc = "summary"
  /\ results' = [results EXCEPT
                   !.reply_success = success_count > 0,
                   !.reply_message = Message("count", success_count, Len(post_targets)),
                   !.reply_details =
                      IF success_count > 0
                      THEN IF failed_posts # <<>>
                           THEN Details("failed", First(failed_posts, DetailCap))
                           ELSE @
                      ELSE Details("all failed", First(failed_posts, DetailCap))]
  /\ pc' = "done"
  /\ UNCHANGED <<run, cfg, env, page_num, log, reply_vars>>

\* ---- perform_humanlike_activities, lines 273-312
\* What a run leaves for the browser to have seen.
Driven == [log |-> log, post_targets |-> post_targets, tried |-> tried, reply |-> reply]

\* perform_humanlike_activities_with_results is called, nothing ran before.
FirstRun ==
  [method |-> "with_results",
   earlier |-> [log |-> <<>>, post_targets |-> <<>>, tried |-> <<>>, reply |-> NoReply]]

\* The caller runs perform_humanlike_activities after the other entry point
\* returned, on the same configuration and the same site.
plain_call ==
  /\ pc = "done"
  /\ run.method = "with_results"
  /\ run' = [method |-> "plain", earlier |-> Driven]
  /\ pc' = "plain_idle"
  /\ page_num' = 0
  /\ log' = <<>>
  /\ post_targets' = <<>>
  /\ idx' = 0
  /\ success_count' = 0
  /\ failed_posts' = <<>>
  /\ tried' = <<>>
  /\ reply' = NoReply
  /\ UNCHANGED <<cfg, env, results>>

\* Lines 275-282: the opening wait and the browsing flag.
plain_start ==
  /\ pc = "plain_idle"
  /\ pc' = IF cfg.enable_random_browsing THEN "get" ELSE "plain_reply"
  /\ UNCHANGED <<run, cfg, env, page_num, log, results, reply_vars>>

\* Lines 111 and 285: random_browse_pages returns without raising.
plain_browse_return ==
  /\ pc = "return"
  /\ run.method = "plain"
  /\ pc' = "plain_reply"
  /\ UNCHANGED <<run, cfg, env, page_num, log, results, reply_vars>>

\* Line 288: the reply flag.
plain_reply_start ==
  /\ pc = "plain_reply"
  /\ pc' = IF cfg.enable_reply THEN "plain_discover" ELSE "plain_done"
  /\ UNCHANGED <<run, cfg, env, page_num, log, results, reply_vars>>

\* Lines 289-294: find the targets; the loop over an empty list does nothing.
plain_discover(p) ==
  /\ pc = "plain_discover"
  /\ LET r == find_reply_targets(p, cfg.reply_count)
     IN /\ log' = log \o r.events
        /\ post_targets' = r.posts
        /\ pc' = IF r.posts = <<>> THEN "plain_done" ELSE "plain_attempt"
  /\ idx' = 0
  /\ success_count' = 0
  /\ UNCHANGED <<run, cfg, env, page_num, results, failed_posts, tried, reply>>

\* Lines 294-299 without the interval wait.
plain_attempt_never_waits(o, resp, pick) ==
  /\ pc = "plain_attempt"
  /\ LET r == reply_to_post(post_targets[idx + 1], o, resp, pick)
     IN /\ reply' = r
        /\ success_count' = IF r.ret THEN success_count + 1 ELSE success_count
  /\ log' = Append(log, "reply")
  /\ tried' = Append(tried, idx + 1)
  /\ idx' = IF idx < Len(post_targets) - 1 THEN idx + 1 ELSE idx
  /\ pc' = IF idx < Len(post_targets) - 1 THEN "plain_attempt" ELSE "plain_done"
  /\ UNCHANGED <<run, cfg, env, page_num, results, post_targets, failed_posts>>

\* Lines 294-299: one pass of the loop up to the test for the interval wait.
plain_attempt(o, resp, pick) ==
  /\ pc = "plain_attempt"
  /\ LET r == reply_to_post(post_targets[idx + 1], o, resp, pick)
     IN /\ reply' = r
        /\ success_count' = IF r.ret THEN success_count + 1 ELSE success_count
  /\ log' = Append(log, "reply")
  /\ tried' = Append(tried, idx + 1)
  /\ pc' = IF idx < Len(post_targets) - 1 THEN "plain_interval" ELSE "plain_done"
  /\ UNCHANGED <<run, cfg, env, page_num, results, post_targets, idx, failed_posts>>

\* Lines 300-305: the reply-interval wait, then the next pass.
plain_interval ==
  /\ pc = "plain_interval"
  /\ log' = Append(log, "interval")
  /\ idx' = idx + 1
  /\ pc' = IF idx + 1 < Len(post_targets) THEN "plain_attempt" ELSE "plain_done"
  /\ UNCHANGED <<run, cfg, env, page_num, results, post_targets, success_count, failed_posts,
                 tried, reply>>

\* ---- configurations and site behaviours
\* A canned reply message, and a listing whose selector matches k threads
\* with distinct URLs and titles.
Canned(i) == Text(<<"canned", i>>, 4, 0, FALSE)

Thread(u) ==
  [href |-> [abs |-> TRUE, path |-> u], text |-> Text(<<"title", u>>, 9, 0, FALSE), stale |-> FALSE]

Listing(k) == [u \in 1..k |-> Thread(u)]

\* Elements of every kind the selector loop distinguishes: two threads, the
\* first thread again under its relative address and a long padded title, a
\* link without href, a link with a four-character title, a stale element.
SomeElements ==
  {Thread(1), Thread(2),
   [href |-> [abs |-> FALSE, path |-> 1], text |-> Text(<<"title", 3>>, TitleCap + 1, 1, FALSE),
    stale |-> FALSE],
   [href |-> NoHref, text |-> Text(<<"title", 4>>, 9, 0, FALSE), stale |-> FALSE],
   [href |-> [abs |-> TRUE, path |-> 2], text |-> Text(<<"title", 5>>, TitleMin, 1, FALSE),
    stale |-> FALSE],
   [Thread(2) EXCEPT !.stale = TRUE]}

ElementLists == UNION {[1..n -> SomeElements] : n \in 0..MaxLinks}

\* The state of a HumanlikeBehavior whose run has not started.
NotStarted ==
  /\ pc = "idle"
  /\ page_num = 0
  /\ log = <<>>
  /\ results = InitialResults
  /\ post_targets = <<>>
  /\ idx = 0
  /\ success_count = 0
  /\ failed_posts = <<>>
  /\ tried = <<>>
  /\ reply = NoReply
  /\ run = FirstRun

\* Browsing runs: the reply activity is switched off.
Configs ==
  [enable_random_browsing : BOOLEAN, browse_page_count : 0..MaxPages,
   enable_reply : {FALSE}, reply_count : {2}, use_deepseek : {FALSE},
   reply_messages : {<<Canned(1)>>}]

\* get_raises: driver.get of the listing raises while browsing;
\* scroll_raises_at: the page (0: none) on which human_like_scroll raises;
\* discovery: the step of find_reply_targets that raises; matches: what
\* find_elements returns on listing page 2 for each of the three selectors.
Envs ==
  [get_raises : BOOLEAN, scroll_raises_at : 0..MaxPages,
   ctrl : [1..MaxPages -> Controls], discovery : {"none"},
   matches : {<<Listing(2), <<>>, <<>>>>}]

InitBrowse ==
  /\ cfg \in Configs
  /\ env \in Envs
  /\ NotStarted

\* An orchestrator that is not running.
IdleBrowse ==
  /\ cfg = [enable_random_browsing |-> FALSE, browse_page_count |-> 0,
            enable_reply |-> FALSE, reply_count |-> 2, use_deepseek |-> FALSE,
            reply_messages |-> <<>>]
  /\ env = [get_raises |-> FALSE, scroll_raises_at |-> 0,
            ctrl |-> [p \in 1..MaxPages |-> "absent"], discovery |-> "none",
            matches |-> <<<<>>, <<>>, <<>>>>]
  /\ NotStarted

\* Discovery runs: every short list of elements under the first selector, and
\* the listings of distinct threads.
DiscoveryConfigs ==
  [enable_random_browsing : {FALSE}, browse_page_count : {0},
   enable_reply : {TRUE}, reply_count : 0..MaxReply, use_deepseek : {FALSE},
   reply_messages : {<<Canned(1)>>}]

DiscoveryEnvs ==
  [get_raises : {FALSE}, scroll_raises_at : {0},
   ctrl : {[p \in 1..MaxPages |-> "works"]}, discovery : {"none"},
   matches : {<<l, <<Thread(2), Thread(1)>>, <<>>>> : l \in ElementLists}
             \cup {<<Listing(k), <<>>, <<>>>> : k \in 0..MaxUrls}]

\* Reply batches: both flags, a browsing that may fail, a discovery that may
\* raise, listings of 0..MaxUrls threads, a pool that may be empty.
BatchConfigs ==
  [enable_random_browsing : BOOLEAN, browse_page_count : {1},
   enable_reply : BOOLEAN, reply_count : 0..MaxReply, use_deepseek : {FALSE},
   reply_messages : {<<>>, <<Canned(1)>>}]

BatchEnvs ==
  [get_raises : BOOLEAN, scroll_raises_at : {0},
   ctrl : {[p \in 1..MaxPages |-> c] : c \in Controls}, discovery : DiscoveryFaults,
   matches : {<<Listing(k), <<>>, <<>>>> : k \in 0..MaxUrls}]

BatchFaults == {"none", "get", "no_textbox", "no_submit"}

\* Single replies: both content paths, every pool, every answer of the service.
Pools == {<<>>, <<Canned(1)>>, <<Canned(1), Canned(2)>>}

ContentConfigs ==
  [enable_random_browsing : {FALSE}, browse_page_count : {0},
   enable_reply : {TRUE}, reply_count : {1}, use_deepseek : BOOLEAN,
   reply_messages : Pools]

ContentEnvs ==
  [get_raises : {FALSE}, scroll_raises_at : {0},
   ctrl : {[p \in 1..MaxPages |-> "absent"]}, discovery : {"none"},
   matches : {<<Listing(2), <<>>, <<>>>>}]

Responses ==
  {ApiError} \cup
  {Text(<<"ai", 0>>, n, pad, denied) :
     n \in {0, ReplyMin - 1, ReplyMin, ReplyMin + 1}, pad \in 0..1, denied \in BOOLEAN}

\* The positions random.choice can draw from the pool (0: there is none).
Picks == IF cfg.reply_messages = <<>> THEN {0} ELSE DOMAIN cfg.reply_messages

\* The permutations random.shuffle can produce of the links found.
Shuffles ==
  Permutations(1..Len(unique_posts(scan_selectors(env.matches, 1, <<>>), {})))

\* Two of them: the order found and its reverse.
TwoShuffles ==
  LET n == Len(unique_posts(scan_selectors(env.matches, 1, <<>>), {}))
  IN {[i \in 1..n |-> i], [i \in 1..n |-> n + 1 - i]}

\* Runs to be repeated: beside the site behaviour, env fixes what the random
\* source and each thread's page will do, so that a second run meets the same:
\* reversed tells what random.shuffle produces, fate[u] how the browser
\* behaves in a reply to thread u.
VariantConfigs ==
  [enable_random_browsing : BOOLEAN, browse_page_count : {2},
   enable_reply : BOOLEAN, reply_count : 0..MaxReply, use_deepseek : {FALSE},
   reply_messages : {<<Canned(1)>>}]

VariantEnvs ==
  [get_raises : BOOLEAN, scroll_raises_at : {0},
   ctrl : {[p \in 1..MaxPages |-> c] : c \in Controls}, discovery : {"none", "page2"},
   matches : {<<Listing(k), <<>>, <<>>>> : k \in 0..MaxLinks},
   reversed : BOOLEAN, fate : [1..MaxLinks -> {"none", "no_textbox"}]]

\* The permutation random.shuffle produces in a run of VariantEnvs.
FixedShuffle ==
  LET n == Len(unique_posts(scan_selectors(env.matches, 1, <<>>), {}))
  IN IF env.reversed THEN [i \in 1..n |-> n + 1 - i] ELSE [i \in 1..n |-> i]

\* The browser's behaviour in the reply about to be made.
Fate == IF idx + 1 \in DOMAIN post_targets THEN env.fate[post_targets[idx + 1].url] ELSE "none"

\* ------------------------------------------------------- specifications
ProcKinds == {"running", "none"}

\* The outcomes of the pinned and of the fallback instantiation that the call
\* consumes after a first outcome out1 and a pinned outcome out2.
Outs2(out1) == IF out1 = "ok" THEN {"ok"} ELSE {"ok", "TypeError", "raise"}
Outs3(out2) == IF out2 = "TypeError" THEN {"ok", "raise"} ELSE {"ok"}

\* Error texts used where only the number of attempts matters.
LifecycleMessages ==
  {<<>>, <<[k |-> "supports", v |-> 120], [k |-> "current", v |-> 131]>>}

\* The session manager and the borrowers of its handle.
Init ==
  /\ UNDETECTED_AVAILABLE \in BOOLEAN
  /\ err_text \in LifecycleMessages
  /\ InitSession
  /\ IdleBrowse

Next ==
  \/ /\ \E out1 \in {"ok", "raise"} : \E out2 \in Outs2(out1) : \E out3 \in Outs3(out2) :
          \E waitOk \in BOOLEAN, procKind \in ProcKinds :
             create_driver(out1, out2, out3, waitOk, procKind)
     /\ UNCHANGED browse_vars
  \/ /\ \E f \in QuitFaults : quit_driver(f)
     /\ UNCHANGED browse_vars
  \/ /\ \E f \in ForceFaults : force_quit_driver(f)
     /\ UNCHANGED browse_vars
  \/ /\ \E k \in Ids, f \in SUBSET {"getattr"} : proxy_getattr(k, f)
     /\ UNCHANGED browse_vars
  \/ /\ \E k \in Ids, f \in SUBSET {"close"} : proxy_close(k, f)
     /\ UNCHANGED browse_vars
  \/ /\ \E k \in Ids, f \in SUBSET {"quit"} : proxy_quit(k, f)
     /\ UNCHANGED browse_vars
  \/ /\ \E k \in Ids : process_exits(k)
     /\ UNCHANGED browse_vars
  \/ /\ \E f \in SUBSET {"getattr"} : is_driver_alive(f)
     /\ UNCHANGED browse_vars

Spec == Init /\ [][Next]_vars

\* Driver creation alone, over every error text.
InitCreate ==
  /\ UNDETECTED_AVAILABLE \in BOOLEAN
  /\ err_text \in Messages
  /\ InitSession
  /\ IdleBrowse

NextCreate ==
  /\ \E out1 \in {"ok", "raise"} : \E out2 \in Outs2(out1) : \E out3 \in Outs3(out2) :
        create_driver(out1, out2, out3, TRUE, "running")
  /\ UNCHANGED browse_vars

SpecCreate == InitCreate /\ [][NextCreate]_vars

\* One orchestration run over every configuration and site behaviour.
InitActivities ==
  /\ UNDETECTED_AVAILABLE = TRUE
  /\ err_text = <<>>
  /\ InitSession
  /\ InitBrowse

NextActivities ==
  \/ activities_start /\ UNCHANGED session_vars
  \/ browse_get /\ UNCHANGED session_vars
  \/ browse_scroll /\ UNCHANGED session_vars
  \/ browse_advance /\ UNCHANGED session_vars
  \/ browse_dwell /\ UNCHANGED session_vars
  \/ browse_return /\ UNCHANGED session_vars
  \/ reply_start /\ UNCHANGED session_vars

SpecActivities == InitActivities /\ [][NextActivities]_vars

\* A session that plays no part in the run.
OneSession ==
  /\ UNDETECTED_AVAILABLE = TRUE
  /\ err_text = <<>>
  /\ InitSession

\* Target discovery over every list of elements and every shuffle.
InitDiscovery ==
  /\ OneSession
  /\ cfg \in DiscoveryConfigs
  /\ env \in DiscoveryEnvs
  /\ NotStarted

NextDiscovery ==
  \/ activities_start /\ UNCHANGED session_vars
  \/ reply_start /\ UNCHANGED session_vars
  \/ (\E p \in Shuffles : reply_discover(p)) /\ UNCHANGED session_vars

SpecDiscovery == InitDiscovery /\ [][NextDiscovery]_vars

\* Whole runs with a reply batch.
InitReplies ==
  /\ OneSession
  /\ cfg \in BatchConfigs
  /\ env \in BatchEnvs
  /\ NotStarted

NextReplies ==
  \/ activities_start /\ UNCHANGED session_vars
  \/ browse_get /\ UNCHANGED session_vars
  \/ browse_scroll /\ UNCHANGED session_vars
  \/ browse_dwell /\ UNCHANGED session_vars
  \/ browse_return /\ UNCHANGED session_vars
  \/ reply_start /\ UNCHANGED session_vars
  \/ (\E p \in TwoShuffles : reply_discover(p)) /\ UNCHANGED session_vars
  \/ (\E o \in BatchFaults, pick \in Picks : reply_attempt(o, ApiError, pick))
       /\ UNCHANGED session_vars
  \/ reply_interval /\ UNCHANGED session_vars
  \/ reply_summary /\ UNCHANGED session_vars

SpecReplies == InitReplies /\ [][NextReplies]_vars

\* Whole runs up to their return, over every configuration of a reply batch:
\* a site without a next-page control whose listing holds up to two threads.
OutcomeEnvs ==
  [get_raises : BOOLEAN, scroll_raises_at : {0},
   ctrl : {[p \in 1..MaxPages |-> "absent"]}, discovery : DiscoveryFaults,
   matches : {<<Listing(k), <<>>, <<>>>> : k \in 0..2}]

InitOutcome ==
  /\ OneSession
  /\ cfg \in BatchConfigs
  /\ env \in OutcomeEnvs
  /\ NotStarted

SpecOutcome == InitOutcome /\ [][NextReplies]_vars

\* One reply over every content configuration and every answer of the service.
InitContent ==
  /\ OneSession
  /\ cfg \in ContentConfigs
  /\ env \in ContentEnvs
  /\ NotStarted

NextContent ==
  \/ activities_start /\ UNCHANGED session_vars
  \/ reply_start /\ UNCHANGED session_vars
  \/ (\E p \in TwoShuffles : reply_discover(p)) /\ UNCHANGED session_vars
  \/ (\E o \in ReplyFaults, resp \in Responses, pick \in Picks : reply_attempt(o, resp, pick))
       /\ UNCHANGED session_vars
  \/ reply_summary /\ UNCHANGED session_vars

SpecContent == InitContent /\ [][NextContent]_vars

\* Both entry points, one after the other, on the same configuration, site
\* and random choices.
InitVariants ==
  /\ OneSession
  /\ cfg \in VariantConfigs
  /\ env \in VariantEnvs
  /\ NotStarted

NextVariants ==
  \/ activities_start /\ UNCHANGED session_vars
  \/ browse_get /\ UNCHANGED session_vars
  \/ browse_scroll /\ UNCHANGED session_vars
  \/ browse_advance /\ UNCHANGED session_vars
  \/ browse_dwell /\ UNCHANGED session_vars
  \/ browse_return /\ UNCHANGED session_vars
  \/ reply_start /\ UNCHANGED session_vars
  \/ reply_discover(FixedShuffle) /\ UNCHANGED session_vars
  \/ reply_attempt(Fate, ApiError, 1) /\ UNCHANGED session_vars
  \/ reply_interval /\ UNCHANGED session_vars
  \/ reply_summary /\ UNCHANGED session_vars
  \/ plain_call /\ UNCHANGED session_vars
  \/ plain_start /\ UNCHANGED session_vars
  \/ plain_browse_return /\ UNCHANGED session_vars
  \/ plain_reply_start /\ UNCHANGED session_vars
  \/ plain_discover(FixedShuffle) /\ UNCHANGED session_vars
  \/ plain_attempt(Fate, ApiError, 1) /\ UNCHANGED session_vars
  \/ plain_interval /\ UNCHANGED session_vars

SpecVariants == InitVariants /\ [][NextVariants]_vars

\* ------------------------------------------------------------- properties
Terminal == driver = None /\ wait = None /\ is_cleanup_done

\* C1: after a successful create_driver, each of two quit_driver() calls in a
\* row returns without an exception and leaves get_driver() returning None.
C1_QuitTwiceAfterCreate ==
  (run_from = "created" /\ run_ops \in {<<"quit_driver">>, <<"quit_driver", "quit_driver">>})
    => (~last.escaped /\ get_driver = None)

\* C2: from a manager holding a live driver, every row of quit_driver /
\* force_quit_driver calls ends with driver None, wait None and the
\* cleanup-done flag set; no raw handle's quit() is invoked more than once;
\* every call after the first changes no state and reaches neither the raw
\* handle nor its process.
C2_ShutdownConverges ==
  /\ (run_ops # <<>> /\ run_from \in {"created", "held"}) => Terminal
  /\ \A k \in Ids : raw[k].quit_calls <= 1
  /\ (Len(run_ops) = 2 /\ run_from \in {"created", "held"})
       => (~last.changed /\ last.calls = <<>>)

\* C3: no exception leaves quit_driver() or force_quit_driver(), and a call
\* in which close(), quit(), poll(), terminate() or wait() raised still ends
\* with driver None, wait None and the cleanup-done flag set.
C3_ShutdownNeverThrows ==
  last.op \in ShutdownOps
    => /\ ~last.escaped
       /\ Raised(last.calls) # {} => Terminal

C3_Witness ==
  /\ last.op = "force_quit_driver"
  /\ last.calls = <<[op |-> "poll", out |-> "ok"], [op |-> "terminate", out |-> "raise"],
                    [op |-> "patch", out |-> "ok"], [op |-> "quit", out |-> "raise"]>>
  /\ Terminal

\* C4: once quit() has run on a proxy, no later call reaches the raw handle:
\* a forwarded operation fails with RuntimeError, and close() and quit() do
\* nothing and raise nothing.
C4_ClosedProxyFailsFast ==
  last.pre_quit
    => /\ last.calls = <<>>
       /\ last.op = "SafeChrome.getattr" => last.ret = "RuntimeError"
       /\ last.op \in {"SafeChrome.close", "SafeChrome.quit"}
            => (~last.changed /\ ~last.escaped)

C4_Witness ==
  /\ last.op = "SafeChrome.getattr"
  /\ last.pre_quit
  /\ last.ret = "RuntimeError"
  /\ proxy[last.target].is_closed

\* C5: at most one raw handle created by the manager is live (created and
\* not yet quit).
Live == {k \in Ids : k <= created /\ raw[k].quit_calls = 0}

C5_AtMostOneLiveHandle == Cardinality(Live) <= 1

\* The integers that follow a "Current browser version is" marker in the text.
CurrentVersions(msg) == {msg[i].v : i \in CurIdx(msg)}

Pinned(attempts) == {i \in DOMAIN attempts : attempts[i].kind = "pinned"}

FirstFailed == last.op = "create_driver" /\ last.attempts[1].out # "ok"

PinnedOnceToBrowserVersion ==
  /\ Cardinality(Pinned(last.attempts)) = 1
  /\ last.attempts[2].kind = "pinned"
  /\ last.attempts[2].version_main \in CurrentVersions(err_text)

\* C6 as stated: whenever the first instantiation fails with a text that holds
\* a browser version, exactly one retry is pinned, and to that version.
C6_Original ==
  (FirstFailed /\ CurrentVersions(err_text) # {}) => PinnedOnceToBrowserVersion

\* C6 amended: the same, when undetected_chromedriver is the backend; the
\* plain selenium backend makes a single attempt.
C6_PinnedRetry ==
  /\ (FirstFailed /\ CurrentVersions(err_text) # {} /\ UNDETECTED_AVAILABLE)
       => PinnedOnceToBrowserVersion
  /\ (FirstFailed /\ ~UNDETECTED_AVAILABLE) => Len(last.attempts) = 1

C6_Witness ==
  /\ FirstFailed
  /\ UNDETECTED_AVAILABLE
  /\ err_text = <<[k |-> "supports", v |-> 120], [k |-> "current", v |-> 131]>>
  /\ last.attempts[2] = Attempt("pinned", 131, "ok")

\* C7: a retry with default resolution is made only after the pinned retry
\* raised TypeError, and then exactly once; another failure of the pinned
\* retry ends the call; the attempts are default, pinned, default at most.
C7_FallbackOnlyAfterTypeError ==
  last.op = "create_driver"
    => LET a == last.attempts IN
       /\ Len(a) \in 1..3
       /\ a[1].kind = "default"
       /\ Len(a) >= 2 => (a[2].kind = "pinned" /\ a[1].out # "ok")
       /\ Len(a) = 3 => (a[3].kind = "default" /\ a[2].out = "TypeError")
       /\ (Len(a) >= 2 /\ a[2].out = "TypeError") => Len(a) = 3
       /\ (Len(a) >= 2 /\ a[2].out = "raise")
            => (Len(a) = 2 /\ last.ret = "False" /\ last.error = "pinned")

C7_Witness ==
  /\ last.op = "create_driver"
  /\ Len(last.attempts) = 3
  /\ last.attempts[3].out = "ok"
  /\ last.ret = "True"

\* C8: when the first instantiation fails and the text holds no browser
\* version, there is no retry and create_driver reports the original error
\* as a failure.
C8_NoVersionNoRetry ==
  (FirstFailed /\ CurrentVersions(err_text) = {})
    => /\ Len(last.attempts) = 1
       /\ last.error = "original"
       /\ last.ret = "False"
       /\ ~last.changed

C8_Witness ==
  /\ FirstFailed
  /\ UNDETECTED_AVAILABLE
  /\ err_text = <<[k |-> "supports", v |-> 120], [k |-> "current", v |-> NoNum]>>
  /\ last.ret = "False"

Count(seq, S) == Cardinality({i \in DOMAIN seq : seq[i] \in S})

Scrolls == Count(log, {"scroll"})
Advances == Count(log, Controls)

\* C9: for page_count >= 1 a browsing run makes at most page_count scroll
\* cycles and at most page_count - 1 advance attempts, and the first advance
\* attempt that finds no control is the last event of the run, which then
\* returns normally.
C9_BrowseBounded ==
  cfg.browse_page_count >= 1
    => /\ Scrolls <= cfg.browse_page_count
       /\ Advances <= cfg.browse_page_count - 1
       /\ \A i \in DOMAIN log : log[i] = "absent"
            => /\ i = Len(log)
               /\ pc \in {"return", "reply", "done"}
               /\ pc \in {"reply", "done"} => results.browse_success

C9_Witness ==
  /\ cfg.browse_page_count = 3
  /\ log = <<"get", "scroll", "works", "scroll", "absent">>
  /\ pc = "done"

\* The listing of C10: the control works on pages 1 and 2 and is absent on
\* page 3, and the browser itself does not fail.
Scenario10 ==
  /\ cfg.enable_random_browsing
  /\ cfg.browse_page_count = 3
  /\ env.ctrl[1] = "works" /\ env.ctrl[2] = "works" /\ env.ctrl[3] = "absent"
  /\ ~env.get_raises /\ env.scroll_raises_at = 0

\* C10: in that scenario the run makes exactly 3 scroll cycles and exactly 2
\* advance attempts, none on page 3, and returns browse_success = true.
C10_ThreePagesTwoAdvances ==
  (Scenario10 /\ pc = "done")
    => /\ log = <<"get", "scroll", "works", "scroll", "works", "scroll">>
       /\ Scrolls = 3
       /\ Advances = 2
       /\ results.browse_success

C10_Witness ==
  /\ Scenario10
  /\ pc = "done"
  /\ Scrolls = 3

\* The links discovery collected on listing page 2, and their URLs.
Candidates == scan_selectors(env.matches, 1, <<>>)
CandidateUrls == {Candidates[i].url : i \in DOMAIN Candidates}

\* find_reply_targets got as far as the selectors and has returned.
Discovered == Count(log, {"find_elements"}) > 0

\* C11: for every list of discovered candidate links and every reply_count,
\* the list find_reply_targets returns has length min(reply_count, number of
\* distinct candidate URLs), holds no URL twice, and holds only candidates.
C11_SelectedTargets ==
  Discovered
    => /\ Len(post_targets) = Min({cfg.reply_count, Cardinality(CandidateUrls)})
       /\ \A i, j \in DOMAIN post_targets :
             i # j => post_targets[i].url # post_targets[j].url
       /\ \A i \in DOMAIN post_targets :
             \E j \in DOMAIN Candidates : post_targets[i] = Candidates[j]

C11_Witness ==
  /\ Discovered
  /\ Len(Candidates) = 3
  /\ Cardinality(CandidateUrls) = 2
  /\ cfg.reply_count = 2
  /\ Len(post_targets) = 2
  /\ post_targets[1].url = 2

\* The reply-interval waits made so far, and a batch that has ended.
Intervals == Count(log, {"interval"})
BatchOver == post_targets # <<>> /\ pc \in {"summary", "done"}

\* C12: in a reply phase over n selected targets a reply is attempted exactly
\* once on each target, in order, and a reply-interval wait follows every
\* attempt but the last: n - 1 waits when the batch has ended, none of them
\* after the final attempt, whatever the attempts returned.
C12_OneAttemptEachAndWaitsBetween ==
  post_targets # <<>>
    => /\ tried = [i \in 1..Len(tried) |-> i]
       /\ Len(tried) <= Len(post_targets)
       /\ Intervals <= Len(post_targets) - 1
       /\ Intervals = IF pc = "attempt" THEN Len(tried) ELSE Len(tried) - 1
       /\ BatchOver => /\ Len(tried) = Len(post_targets)
                       /\ Intervals = Len(post_targets) - 1
                       /\ log[Len(log)] = "reply"

C12_Witness ==
  /\ pc = "done"
  /\ cfg.reply_count = 2
  /\ Len(Candidates) = 5
  /\ Len(post_targets) = 2
  /\ Intervals = 1
  /\ success_count = 1
  /\ failed_posts # <<>>

\* The titles reply_details names.
Named == {results.reply_details.titles[i] : i \in DOMAIN results.reply_details.titles}
FailedTitles(m) == {failed_posts[i] : i \in 1..m}

BatchReported == post_targets # <<>> /\ pc = "done"

\* The count "k/n" and the success flag of a reported batch of n targets of
\* which k succeeded.
CountReported ==
  /\ success_count + Len(failed_posts) = Len(post_targets)
  /\ results.reply_message = Message("count", success_count, Len(post_targets))
  /\ results.reply_success = (success_count >= 1)

\* C13 as stated: for a batch of n >= 1 targets of which k succeed,
\* reply_message carries "k/n", reply_success is true when k >= 1, and when
\* a target failed reply_details names the title of every failed target.
C13_Original ==
  BatchReported
    => /\ CountReported
       /\ failed_posts # <<>> => FailedTitles(Len(failed_posts)) \subseteq Named

\* C13: for a batch of n >= 1 targets of which k succeed, reply_message
\* carries "k/n", reply_success is true exactly when k >= 1, and when a target
\* failed reply_details names the titles of the first three failed targets,
\* in order, and no other: every failed target when at most three failed.
C13_FirstThreeFailedNamed ==
  BatchReported
    => /\ CountReported
       /\ failed_posts # <<>>
            => /\ results.reply_details.titles = First(failed_posts, DetailCap)
               /\ Len(failed_posts) <= DetailCap
                    => FailedTitles(Len(failed_posts)) \subseteq Named
       /\ failed_posts = <<>> => results.reply_details = Details("None", <<>>)

C13_Witness ==
  /\ BatchReported
  /\ Len(post_targets) = 4
  /\ success_count = 0
  /\ Len(results.reply_details.titles) = 3
  /\ ~(FailedTitles(4) \subseteq Named)

\* C14: a reply that fails (navigation error, missing textbox, missing submit
\* control, content-generation error) returns False to the loop, which goes on
\* to the remaining targets: while a target is left the batch has not ended,
\* and at its end as many targets were attempted as failed or succeeded.
C14_FailureKeepsBatchGoing ==
  (post_targets # <<>> /\ tried # <<>> /\ ~reply.ret)
    => /\ Len(tried) < Len(post_targets) => pc \in {"interval", "attempt"}
       /\ BatchOver => Len(tried) = Len(post_targets)
       /\ Len(failed_posts) + success_count = Len(tried)

C14_Witness ==
  /\ Len(post_targets) = 3
  /\ failed_posts = <<post_targets[1].title, post_targets[2].title>>
  /\ reply.steps = <<"get", "scroll", "textbox", "generate">>
  /\ reply.gen_raised
  /\ tried = <<1, 2>>
  /\ pc = "interval"

\* find_reply_targets was called and an exception ended it before the selectors.
DiscoveryRaised == Count(log, {"list_get"}) > 0 /\ ~Discovered

\* C15: when target discovery raises, the reply phase ends there: no reply is
\* attempted and the outcome, returned normally, has reply_success = false
\* and the "no targets found" message.
C15_DiscoveryFailureEndsPhase ==
  DiscoveryRaised
    => /\ pc = "done"
       /\ post_targets = <<>>
       /\ tried = <<>>
       /\ Count(log, {"reply"}) = 0
       /\ ~results.reply_success
       /\ results.reply_message = Message("no targets found", 0, 0)

C15_Witness ==
  /\ DiscoveryRaised
  /\ env.discovery = "page2"
  /\ log[Len(log)] = "page2_get"
  /\ Len(Candidates) >= 2
  /\ cfg.reply_count >= 1
  /\ pc = "done"

\* The most recent reply_to_post got as far as the given step.
Reached(step) == \E i \in DOMAIN reply.steps : reply.steps[i] = step

\* The reply text is a canned message, or the default when there is none.
PoolTexts == {cfg.reply_messages[i] : i \in DOMAIN cfg.reply_messages}
FromPoolOrDefault ==
  IF cfg.reply_messages # <<>>
  THEN reply.source = "pool" /\ reply.text \in PoolTexts
  ELSE reply.source = "default" /\ reply.text = DefaultReply

\* C16: generating the content of a reply never raises and yields a non-empty
\* string, whether AI generation is on or off, whether the canned pool is
\* empty or not, and whatever the external request does.
C16_ContentAlwaysUsable ==
  Reached("generate") => ~reply.gen_raised /\ len(reply.text) > 0

\* The service answered the most recent reply with a content string.
Answered ==
  /\ cfg.use_deepseek
  /\ Reached("generate")
  /\ reply.resp # ApiError

\* C17 as stated: with AI generation on, an answer that is empty, shorter
\* than 10 characters or holds a denylisted phrase is replaced by a canned
\* message (the default when the pool is empty), and an answer of length
\* >= 10 without denylisted phrase is used unchanged.
C17_Original ==
  Answered
    => IF len(reply.resp) = 0 \/ len(reply.resp) < ReplyMin \/ reply.resp.denied
       THEN reply.text # reply.resp /\ FromPoolOrDefault
       ELSE reply.text = reply.resp

\* C17: with AI generation on, an answer that, stripped of the whitespace
\* around it, is empty, shorter than 10 characters or holds a denylisted
\* phrase is replaced by a canned message (the default when the pool is
\* empty), and an answer whose stripped text has length >= 10 and no
\* denylisted phrase is used in its stripped form.
C17_ValidatedAfterStrip ==
  Answered
    => IF len(strip(reply.resp)) = 0 \/ len(strip(reply.resp)) < ReplyMin
          \/ reply.resp.denied
       THEN reply.text # strip(reply.resp) /\ FromPoolOrDefault
       ELSE reply.text = strip(reply.resp) /\ reply.source = "ai"

C17_Witness ==
  /\ Answered
  /\ reply.resp = Text(<<"ai", 0>>, ReplyMin - 1, 1, FALSE)
  /\ len(reply.resp) >= ReplyMin
  /\ reply.source = "pool"
  /\ reply.ret

\* C18: a reply that reaches its content step calls the generation service
\* exactly once when use_deepseek is on, also when the call fails or its
\* answer is rejected, and never when it is off; a reply that does not reach
\* that step calls it never; with use_deepseek off the text of the reply is
\* one of the canned messages.
C18_OneCallPerGeneratedReply ==
  /\ reply.api_calls = IF cfg.use_deepseek /\ Reached("generate") THEN 1 ELSE 0
  /\ (~cfg.use_deepseek /\ Reached("fill"))
       => reply.source = "pool" /\ reply.text \in PoolTexts

C18_Witness ==
  /\ cfg.use_deepseek
  /\ reply.resp = ApiError
  /\ reply.api_calls = 1
  /\ reply.source = "pool"
  /\ reply.ret

\* C19: is_driver_alive() never raises; it returns False when the manager
\* holds no driver, which is so before any create_driver and after any
\* shutdown call; it returns False whenever the probe read raises; and it
\* returns True only when a driver is held and the probe read succeeds.
C19_ProbeTellsLiveness ==
  last.op = "is_driver_alive"
    => /\ ~last.escaped
       /\ driver = None => last.ret = "False"
       /\ (created = 0 \/ last.after \in ShutdownOps) => last.ret = "False"
       /\ last.error \in {"raise", "RuntimeError"} => last.ret = "False"
       /\ last.ret = "True" => (driver # None /\ last.error = "value")

\* What each activity shows of itself: the navigation and scrolling of the
\* browsing, the navigation of the discovery and the replies.
BrowseEvents == Count(log, {"get", "scroll"} \cup Controls)
ReplyEvents == Count(log, {"list_get", "next_click", "page2_get", "find_elements",
                           "reply", "interval"})

\* C20: each activity runs exactly when its flag is set: without
\* enable_random_browsing no browsing navigation occurs; without enable_reply
\* no discovery and no reply occur and the reply fields keep their initial
\* values; and a browsing whose navigation fails does not keep the reply
\* activity from running.
C20_ActivitiesFollowTheirFlags ==
  /\ ~cfg.enable_random_browsing => BrowseEvents = 0
  /\ ~cfg.enable_reply
       => /\ ReplyEvents = 0
          /\ tried = <<>>
          /\ results.reply_success = InitialResults.reply_success
          /\ results.reply_message = InitialResults.reply_message
          /\ results.reply_details = InitialResults.reply_details
  /\ pc = "done"
       => /\ cfg.enable_random_browsing => Count(log, {"get"}) = 1
          /\ cfg.enable_reply => Count(log, {"list_get"}) = 1

C20_Witness ==
  /\ pc = "done"
  /\ cfg.enable_random_browsing
  /\ env.get_raises
  /\ cfg.enable_reply
  /\ log[1] = "get"
  /\ log[2] = "list_get"
  /\ success_count = 2

\* C21: on one manager, whatever create_driver, quit_driver and
\* force_quit_driver calls came before, a create_driver after an earlier
\* shutdown included, get_driver() and get_wait() return None right after a
\* quit_driver() or force_quit_driver() call returns, and the handle the
\* manager held at the call has been quit.
C21_ShutdownAlwaysReleases ==
  last.op \in ShutdownOps
    => /\ get_driver = None
       /\ get_wait = None
       /\ last.target # None => WasQuit(last.target)

\* C22: create_driver never raises, and on a manager without a session its
\* result tells the session state it leaves: True exactly when get_driver()
\* and get_wait() are both not None afterwards, and after False both are
\* still None.
C22_CreateResultMatchesSession ==
  [][(driver = None /\ wait = None /\ last'.op = "create_driver")
       => /\ ~last'.escaped
          /\ last'.ret = "True" <=> (driver' # None /\ wait' # None)
          /\ last'.ret = "False" => (driver' = None /\ wait' = None)]_vars

\* The browsing of a run failed: the navigation to the listing raised, or a
\* scroll cycle that was made raised.
BrowseFailed ==
  /\ cfg.enable_random_browsing
  /\ \/ env.get_raises
     \/ env.scroll_raises_at # 0 /\ Scrolls >= env.scroll_raises_at

\* C23: the returned browse_success tells whether browsing succeeded: false,
\* with a failure message, when browsing was enabled and failed; true only
\* when browsing ran without failure or was disabled.
C23_BrowseSuccessReportsFailure ==
  pc = "done"
    => /\ results.browse_success <=> ~BrowseFailed
       /\ BrowseFailed => results.browse_message = "browse failed"

\* The events of target discovery, in order.
IsDiscoveryEvent(e) == e \in {"list_get", "next_click", "page2_get", "find_elements"}
DiscoveryLog == SelectSeq(log, IsDiscoveryEvent)

\* C24: discovery loads the first page of the listing first and reaches page
\* 2 by exactly one path before it collects links: a control that is found
\* and whose click works, and then no direct fetch of the page-2 URL; or,
\* when no control is found or the click fails, exactly one direct fetch.
C24_OnePathToPage2 ==
  /\ DiscoveryLog # <<>> => DiscoveryLog[1] = "list_get"
  /\ Count(log, {"page2_get"}) <= 1
  /\ Count(log, {"next_click"}) <= 1
  /\ Discovered
       => DiscoveryLog =
            IF Control(1) = "works" THEN <<"list_get", "next_click", "find_elements">>
            ELSE IF Control(1) = "fails"
                 THEN <<"list_get", "next_click", "page2_get", "find_elements">>
                 ELSE <<"list_get", "page2_get", "find_elements">>

C24_Witness ==
  /\ Discovered
  /\ Control(1) = "fails"
  /\ DiscoveryLog = <<"list_get", "next_click", "page2_get", "find_elements">>
  /\ post_targets # <<>>

\* ---- C25 ----
\* The links selector s contributes when it is evaluated on its own.
LinksOf(s) == scan_elements(First(env.matches[s], ElementCap), <<>>).post_links

Yielding == {s \in 1..Len(env.matches) : LinksOf(s) # <<>>}

\* C25: the selectors are tried in order and collection stops at the first one
\* that yields links: no later selector is evaluated, every candidate comes
\* from that one selector, and at most ElementCap candidates are collected.
C25_FirstYieldingSelectorOnly ==
  (Discovered /\ Yielding # {})
    => \E s \in Yielding :
         /\ \A t \in Yielding : s <= t
         /\ try_selectors(env.matches, 1, <<>>).evaluated = s
         /\ Candidates = LinksOf(s)
         /\ Len(Candidates) <= ElementCap

\* ---- C26 ----
StepOrder == <<"get", "scroll", "textbox", "generate", "fill", "wait", "submit", "click">>

IsOrderedStep(step) == \E i \in DOMAIN StepOrder : StepOrder[i] = step

\* C26: the steps of one reply submission are an initial part of navigate,
\* scroll-read, locate textbox, generate, populate, wait, locate submit, click;
\* the page is scrolled to its bottom exactly when the textbox was not found
\* in the current view; without a textbox nothing is generated, requested or
\* clicked; without a submit control the result is failure without a click;
\* a click is always preceded by the populating of the textbox.
C26_StepsOfOneSubmission ==
  LET main == SelectSeq(reply.steps, IsOrderedStep)
  IN /\ Len(main) <= Len(StepOrder)
     /\ main = First(StepOrder, Len(main))
     /\ Reached("scroll_bottom") <=> reply.textbox \in {"bottom", "absent"}
     /\ Reached("scroll_bottom") => /\ Reached("textbox")
                                    /\ ~Reached("generate") \/ reply.textbox = "bottom"
     /\ reply.textbox \in {"absent", "raised"}
          => /\ ~Reached("generate") /\ reply.text = NoText
             /\ reply.api_calls = 0
             /\ ~Reached("click")
             /\ ~reply.ret
     /\ (reply.steps # <<>> /\ reply.steps[Len(reply.steps)] = "submit")
          => ~reply.ret /\ ~Reached("click")
     /\ Reached("click") => \E i, j \in DOMAIN reply.steps :
                              i < j /\ reply.steps[i] = "fill" /\ reply.steps[j] = "click"
     /\ reply.ret => Reached("click")

\* A reply whose textbox showed only after the scroll to the page bottom and
\* that was submitted.
C26_Witness ==
  /\ reply.textbox = "bottom"
  /\ reply.ret
  /\ reply.steps = <<"get", "scroll", "textbox", "scroll_bottom", "textbox_again",
                     "scroll_to_textbox", "generate", "fill", "wait", "submit", "click">>

\* ---- C27 ----
\* The positions of the raw operation name in a call's list of raw calls.
Pos(calls, name) == {i \in DOMAIN calls : calls[i].op = name}

Before(calls, a, b) == \A j \in Pos(calls, b) : \E i \in Pos(calls, a) : i < j

\* C27: force_quit_driver terminates the driver process only when the process
\* is reachable and still running, and terminates and waits for it before the
\* driver's quit(); in every shutdown path the raw handle is marked before its
\* quit() is called; quit_driver attempts close() before quit() and still
\* invokes quit() when close() raises.
C27_ShutdownStepsInOrder ==
  [][LET calls == last'.calls
         d == IF driver = None THEN None ELSE proxy[driver].drv
     IN /\ (last'.op = "force_quit_driver" /\ Pos(calls, "terminate") # {})
             => /\ d # None
                /\ raw[d].proc = "running"
                /\ \A i \in Pos(calls, "terminate") \cup Pos(calls, "wait") :
                     \A j \in Pos(calls, "quit") : i < j
        /\ last'.op \in ShutdownOps \cup {"SafeChrome.quit"}
             => /\ Before(calls, "patch", "quit")
                /\ Pos(calls, "quit") # {} => raw'[last'.target].is_patched
        /\ (last'.op = "quit_driver" /\ d # None /\ ~is_cleanup_done /\ ~proxy[driver].is_closed)
             => /\ Pos(calls, "close") # {}
                /\ Pos(calls, "quit") # {}
                /\ \A i \in Pos(calls, "close") : \A j \in Pos(calls, "quit") : i < j
        /\ (last'.op = "quit_driver" /\ Pos(calls, "quit") # {})
             => Before(calls, "close", "quit")]_vars

\* A forced shutdown of a driver whose process was running: the process is
\* terminated and waited for, the handle marked, then quit.
C27_Witness ==
  /\ last.op = "force_quit_driver"
  /\ Len(last.calls) = 5
  /\ [i \in 1..5 |-> last.calls[i].op] = <<"poll", "terminate", "wait", "patch", "quit">>

\* ---- C28 ----
\* C28: on the same configuration, site behaviour and random choices,
\* perform_humanlike_activities drives the browser as
\* perform_humanlike_activities_with_results did: at every moment what it has
\* done is an initial part of the other's navigations, pagination attempts,
\* reply submissions and interval waits, and when it returns it has done all
\* of them, on the same targets in the same order, and has left the outcome
\* record alone.
C28_VariantsDriveAlike ==
  run.method = "plain"
    => /\ Len(log) <= Len(run.earlier.log)
       /\ log = First(run.earlier.log, Len(log))
       /\ Len(tried) <= Len(run.earlier.tried)
       /\ tried = First(run.earlier.tried, Len(tried))
       /\ pc = "plain_done"
            => /\ Driven = run.earlier
               /\ results.reply_success <=> success_count > 0

\* Both runs browsed, found three targets, replied to each with one success,
\* and waited twice in between.
C28_Witness ==
  /\ pc = "plain_done"
  /\ Len(post_targets) = 3
  /\ success_count = 1
  /\ Count(log, {"interval"}) = 2
  /\ Count(log, {"reply"}) = 3
  /\ Count(log, {"get"}) = 1
  /\ Driven = run.earlier

\* ---- C29 ----
ResultFields ==
  {"browse_success", "browse_message", "reply_success", "reply_message", "reply_details"}

\* The steps perform_humanlike_activities_with_results can still take before
\* its return, at most: two per reply left, two per page left.
StepsLeft ==
  LET replies == 2 * MaxUrls + 4
      pages == 2 * (cfg.browse_page_count - page_num)
  IN CASE pc = "done" -> 0
       [] pc = "summary" -> 1
       [] pc = "interval" -> 2 * (Len(post_targets) - idx) - 1
       [] pc = "attempt" -> 2 * (Len(post_targets) - idx)
       [] pc = "discover" -> replies - 1
       [] pc = "reply" -> replies
       [] pc = "return" -> replies + 1
       [] pc = "dwell" -> replies + 2
       [] pc = "advance" -> replies + 2 + pages
       [] pc = "scroll" -> replies + 3 + pages
       [] pc = "get" -> replies + 4 + 2 * cfg.browse_page_count
       [] pc = "idle" -> replies + 5 + 2 * cfg.browse_page_count

\* C29: perform_humanlike_activities_with_results always comes to its return
\* (before it there is always a next step, and every step leaves fewer steps
\* to take), the record it returns has exactly the five fields browse_success,
\* browse_message, reply_success, reply_message and reply_details, and
\* reply_success is true only when the reply activity was enabled and at least
\* one reply submission returned success.
C29_AlwaysReturnsTheRecord ==
  /\ [](pc # "done" => ENABLED NextReplies)
  /\ [](StepsLeft \in Nat)
  /\ [][StepsLeft' < StepsLeft]_vars
  /\ [](/\ DOMAIN results = ResultFields
        /\ results.reply_success
             => /\ pc = "done"
                /\ cfg.enable_reply
                /\ success_count >= 1
                /\ Len(failed_posts) + success_count = Len(post_targets))

\* A returned record reporting success after one of two submissions succeeded.
C29_Witness ==
  /\ pc = "done"
  /\ results.reply_success
  /\ success_count = 1
  /\ Len(post_targets) = 2
  /\ Len(failed_posts) = 1

====
